---- MODULE Spec2Model ----
(***************************************************************************)
(* The cache-plus-data-access layer of src/db.rs: the process-wide snapshot *)
(* cache (PostCache behind a tokio RwLock), the two live data-access        *)
(* functions all_books and book_by_id, and the three mutation sketches      *)
(* add_book, update_book and delete_book that db.rs keeps commented out.    *)
(* Every await of the source is a step boundary: tasks interleave there.    *)
(*                                                                         *)
(* Spec       every function of db.rs, each query and its row loop one step *)
(* SpecRace   all_books and the mutations, with the order of queries kept   *)
(* SpecCancel every function, row loop unrolled, calls dropped at awaits   *)
(* SpecLive   the uncommented functions only, the remote table changing     *)
(* SpecFair   every function, few inputs, fair scheduling, the lock's queue *)
(***************************************************************************)
EXTENDS Integers, Sequences, FiniteSets, TLC

(* ------------------------------ bounds -------------------------------- *)

\* Number of concurrently running request tasks.
NumTasks == 2

\* Largest primary key the database hands out (caps the number of inserts).
MaxId == 2

Tasks == 1..NumTasks
Ids == 1..MaxId

\* Column values, in the order the database's default collation sorts them.
Titles == <<"A", "B">>
Authors == <<"x", "y">>
TitleSet == {Titles[i] : i \in DOMAIN Titles}
AuthorSet == {Authors[i] : i \in DOMAIN Authors}

\* The (title, author_id) pairs callers submit: B/x and A/y.
PostInputs == {<<Titles[2], Authors[1]>>, <<Titles[1], Authors[2]>>}

\* The created_at value the database assigns.
Stamp == "ts"
\* The content add_book gives every new post.
Foo == "foo"

(* ------------------------- Option and Result --------------------------- *)

None == <<>>
Some(v) == <<v>>
IsSome(o) == Len(o) = 1
Unwrap(o) == o[1]

NoResult == [tag |-> "None", posts |-> <<>>, id |-> 0, msg |-> ""]
OkPosts(s) == [tag |-> "Ok", posts |-> s, id |-> 0, msg |-> ""]
OkId(n) == [tag |-> "Ok", posts |-> <<>>, id |-> n, msg |-> ""]
OkUnit == [tag |-> "Ok", posts |-> <<>>, id |-> 0, msg |-> ""]
Err(m) == [tag |-> "Err", posts |-> <<>>, id |-> 0, msg |-> m]
Panic == [tag |-> "Panic", posts |-> <<>>, id |-> 0, msg |-> ""]

(* ------------------------------ Post ----------------------------------- *)

\* A table row: the columns (id, title, content, author_id, created_at) by
\* position.
Row(id, title, content, author, created) == <<id, title, content, author, created>>

\* The struct literal of all_books and book_by_id: columns taken by position.
Post(row) ==
    [id |-> Some(row[1]), title |-> row[2], content |-> row[3],
     author_id |-> row[4], created_at |-> Some(row[5])]

(* ---------------------------- sequences -------------------------------- *)

Range(s) == {s[i] : i \in DOMAIN s}

\* All orderings of the elements of a sequence without repeated elements.
Orderings(s) ==
    IF s = <<>> THEN {<<>>}
    ELSE {p \in [DOMAIN s -> Range(s)] : \A i, j \in DOMAIN s : i # j => p[i] # p[j]}

IndexOf(seq, v) == CHOOSE i \in DOMAIN seq : seq[i] = v

(* ---------------------------- the database ------------------------------ *)

\* "SELECT * FROM users": no ORDER BY, so SQLite scans the table and hands the
\* rows back in rowid order.
SelectAll(table) == table

\* The point lookup with its WHERE clause lost.
SelectById_no_where(table, id) == table

\* "SELECT * FROM users WHERE id == ?"
SelectById(table, id) == SelectSeq(table, LAMBDA r : r[1] = id)

\* The primary key the database gives the next row: one past the largest.
NextRowId(table) ==
    IF table = <<>> THEN 1
    ELSE 1 + CHOOSE m \in {table[i][1] : i \in DOMAIN table} :
                 \A i \in DOMAIN table : table[i][1] <= m

\* "INSERT into posts values (?1, ?2, ?3)": the database assigns id and
\* created_at.
Insert(table, title, author) ==
    Append(table, Row(NextRowId(table), title, Foo, author, Stamp))

\* "UPDATE books SET title=$1, author=$2 WHERE id=$3"
UpdateRow(table, id, title, author) ==
    IF table = <<>> THEN <<>>
    ELSE [i \in DOMAIN table |->
            IF table[i][1] = id
            THEN Row(id, title, table[i][3], author, table[i][5])
            ELSE table[i]]

\* "DELETE FROM books WHERE id=$1"
DeleteRow(table, id) == SelectSeq(table, LAMBDA r : r[1] # id)

\* The rows of the table holding primary key id.
RowsWithId(table, id) == {r \in Range(table) : r[1] = id}

(* ------------------------------ PostCache ------------------------------- *)

\* PostCache::new: all_books: RwLock::new(None)
PostCache_new == None

\* A read that never sees the stored snapshot.
PostCache_all_books_none(slot) == None

\* PostCache::all_books: lock.clone()
PostCache_all_books(slot) == slot

\* A refresh that only fills an empty slot.
PostCache_refresh_if_empty(slot, books) == IF IsSome(slot) THEN slot ELSE Some(books)

\* PostCache::refresh: *lock = Some(books)
PostCache_refresh(slot, books) == Some(books)

\* An invalidate that leaves the slot as it is.
PostCache_invalidate_keep(slot) == slot

\* PostCache::invalidate: *lock = None
PostCache_invalidate(slot) == None

\* tokio RwLock: read() is granted while no writer holds the lock, write()
\* while nobody holds it.
CanRead(rd, wr) == wr = 0

\* A write() granted while read guards are still out.
CanWrite_despite_readers(rd, wr) == wr = 0

CanWrite(rd, wr) == wr = 0 /\ rd = {}

(* ------------------------------- state ---------------------------------- *)

VARIABLES
    db,        \* the table, in rowid order
    cache,     \* CACHE.all_books: Option<Vec<Post>>
    readers,   \* tasks holding a read guard of CACHE.all_books
    writer,    \* the task holding the write guard, 0 if none
    pc,        \* each task's position in the function it runs
    op,        \* the function each task runs
    arg,       \* its arguments
    results,   \* add_book: results
    books,     \* all_books: books
    events,    \* history: what the task's call has done so far
    alone,     \* history: no other call has overlapped the task's call
    prev,      \* history: the mutation that ran, alone, right before the call
    last,      \* history: the call that returned in the step leading here
    written,   \* history: the last PostCache write and the argument it was given
    quiet,     \* history: only all_books calls have run since all tasks were idle
    queried,   \* history: what the latest all_books query returned, while a call
               \* that has queried is still to refresh
    waiters    \* the tasks waiting for a guard of CACHE.all_books, first come first
\* quiet and queried are kept by the specification that observes races
\* (Tracked), waiters by the one that states fairness (Queued); the others
\* leave them alone (Untracked) and let any waiter take a free lock.

vars == <<db, cache, readers, writer, pc, op, arg, results, books, events,
          alone, prev, last, written, quiet, queried, waiters>>

NoArg == [id |-> 0, title |-> "", author_id |-> ""]
NoPrev == [op |-> "none", id |-> 0, title |-> "", author_id |-> ""]
\* No error came from the driver; an error is <<where it arose, the error>>.
NoFault == <<>>
NoLast == [op |-> "none", arg |-> NoArg, result |-> NoResult, events |-> <<>>,
           alone |-> FALSE, prev |-> NoPrev, fault |-> NoFault,
           quiet |-> FALSE, queried |-> None]

Init ==
    /\ db = <<>>
    /\ cache = PostCache_new
    /\ readers = {}
    /\ writer = 0
    /\ pc = [t \in Tasks |-> "idle"]
    /\ op = [t \in Tasks |-> "none"]
    /\ arg = [t \in Tasks |-> NoArg]
    /\ results = [t \in Tasks |-> <<>>]
    /\ books = [t \in Tasks |-> <<>>]
    /\ events = [t \in Tasks |-> <<>>]
    /\ alone = [t \in Tasks |-> FALSE]
    /\ prev = [t \in Tasks |-> NoPrev]
    /\ last = NoLast
    /\ written = [kind |-> "new", books |-> <<>>]
    /\ quiet = FALSE
    /\ queried = None
    /\ waiters = <<>>

Idle(t) == pc[t] = "idle"
Mutations == {"add_book", "update_book", "delete_book"}

\* The successful mutation that returned right before a call starting now,
\* when it ran with no other call overlapping it; NoPrev otherwise.
LastMutation ==
    IF /\ last.op \in Mutations /\ last.alone /\ \A u \in Tasks : Idle(u)
       /\ last.result.tag = "Ok" /\ last.events[1] = "ack"
    THEN [op |-> last.op,
          id |-> IF last.op = "add_book" THEN last.result.id ELSE last.arg.id,
          title |-> last.arg.title, author_id |-> last.arg.author_id]
    ELSE NoPrev

\* A task starts a call of function f with arguments a.
Call(t, f, a, first) ==
    /\ Idle(t)
    /\ pc' = [pc EXCEPT ![t] = first]
    /\ op' = [op EXCEPT ![t] = f]
    /\ arg' = [arg EXCEPT ![t] = a]
    /\ alone' = [u \in Tasks |-> u = t /\ \A v \in Tasks : Idle(v)]
    /\ prev' = [prev EXCEPT ![t] = LastMutation]
    /\ last' = NoLast
    /\ UNCHANGED <<db, cache, readers, writer, results, books, events, written>>

\* A call ends: with a value, with an error, or by unwinding from a panic.
\* Its locals are dropped; e is what its last step did and f the error the
\* driver gave that step, if any.
Finish(t, r, e, f) ==
    /\ last' = [op |-> op[t], arg |-> arg[t], result |-> r, events |-> events[t] \o e,
                alone |-> alone[t], prev |-> prev[t], fault |-> f,
                quiet |-> quiet, queried |-> queried]
    /\ pc' = [pc EXCEPT ![t] = "idle"]
    /\ op' = [op EXCEPT ![t] = "none"]
    /\ arg' = [arg EXCEPT ![t] = NoArg]
    /\ results' = [results EXCEPT ![t] = <<>>]
    /\ books' = [books EXCEPT ![t] = <<>>]
    /\ events' = [events EXCEPT ![t] = <<>>]
    /\ alone' = [alone EXCEPT ![t] = FALSE]
    /\ prev' = [prev EXCEPT ![t] = NoPrev]

Return(t, r, e) == Finish(t, r, e, NoFault)

\* A step of a call that does not end it: e is what the step did.
Step(t, next, e) ==
    /\ pc' = [pc EXCEPT ![t] = next]
    /\ events' = [events EXCEPT ![t] = @ \o e]
    /\ last' = NoLast
    /\ UNCHANGED <<op, arg, alone, prev>>

(* ------------------------------ all_books ------------------------------- *)

\* An all_books that goes to the database without asking the cache.
all_books_call_skip_cache(t) == Call(t, "all_books", NoArg, "la_query")

all_books_call(t) == Call(t, "all_books", NoArg, "get_lock")

\* CACHE.all_books().await: PostCache::all_books takes the read lock
PostCache_all_books_lock(t) ==
    /\ pc[t] = "get_lock"
    /\ CanRead(readers, writer)
    /\ readers' = readers \cup {t}
    /\ Step(t, "get_clone", <<>>)
    /\ UNCHANGED <<db, cache, writer, results, books, written>>

\* A get that keeps its read guard when it finds the slot empty.
PostCache_all_books_clone_keep_guard(t) ==
    /\ pc[t] = "get_clone"
    /\ LET got == PostCache_all_books(cache) IN
         \/ /\ IsSome(got)
            /\ readers' = readers \ {t}
            /\ Return(t, OkPosts(Unwrap(got)), <<"get">>)
         \/ /\ ~IsSome(got)
            /\ Step(t, "la_query", <<"get">>)
            /\ UNCHANGED <<results, books, readers>>
    /\ UNCHANGED <<db, cache, writer, written>>

\* PostCache::all_books clones the slot and drops the guard; then
\* if let Some(all_books) = .. { Ok(all_books) } else { .. }
PostCache_all_books_clone(t) ==
    /\ pc[t] = "get_clone"
    /\ readers' = readers \ {t}
    /\ LET got == PostCache_all_books(cache) IN
         \/ /\ IsSome(got)
            /\ Return(t, OkPosts(Unwrap(got)), <<"get">>)
         \/ /\ ~IsSome(got)
            /\ Step(t, "la_query", <<"get">>)
            /\ UNCHANGED <<results, books>>
    /\ UNCHANGED <<db, cache, writer, written>>

\* The struct literal applied to every row the loop reads.
Posts(rows) == IF rows = <<>> THEN <<>> ELSE [i \in DOMAIN rows |-> Post(rows[i])]

\* let mut results = connection.query("SELECT * FROM users", ()).await.unwrap();
\* while let Some(row) = results.next().await.unwrap() { books.push(Post {..}) }
\* The query, results.next() or a row.get(i) may fail, and each unwrap() then
\* panics: the call unwinds before CACHE.refresh.
all_books_query(t) ==
    /\ pc[t] = "la_query"
    /\ \/ /\ books' = [books EXCEPT ![t] = Posts(SelectAll(db))]
          /\ Step(t, "refresh_lock", <<"query">>)
       \/ /\ Return(t, Panic, <<"query">>)
    /\ UNCHANGED <<db, cache, readers, writer, results, written>>

\* CACHE.refresh(books.clone()).await: PostCache::refresh takes the write lock
PostCache_refresh_lock(t) ==
    /\ pc[t] = "refresh_lock"
    /\ CanWrite(readers, writer)
    /\ writer' = t
    /\ Step(t, "refresh_write", <<>>)
    /\ UNCHANGED <<db, cache, readers, results, books, written>>

\* PostCache::refresh stores Some(books) and drops the guard; then Ok(books)
PostCache_refresh_write(t) ==
    /\ pc[t] = "refresh_write"
    /\ cache' = PostCache_refresh(cache, books[t])
    /\ written' = [kind |-> "refresh", books |-> books[t]]
    /\ writer' = 0
    /\ Return(t, OkPosts(books[t]), <<"refresh">>)
    /\ UNCHANGED <<db, readers>>

(* ------------------------------ book_by_id ------------------------------ *)

\* A point lookup that asks the cache first.
book_by_id_call_cached(t, id) ==
    Call(t, "book_by_id", [NoArg EXCEPT !.id = id], "get_lock")

book_by_id_call(t, id) ==
    Call(t, "book_by_id", [NoArg EXCEPT !.id = id], "bi_query")

\* The errors the driver gives a statement or a results.next() it cannot
\* carry out, and the one row.get(i) gives for a column of another type.
QueryFaults == {"Hrana"}
RowFault == "InvalidColumnType"

\* A point lookup that reports a failed query as a missing id.
book_by_id_map_err_not_found(f) == "ID NOT FOUND"

\* .map_err(|_err: LibsqlError| return LibsqlError::NullValue)
book_by_id_map_err(f) == "NullValue"

\* connection.query("SELECT * FROM users WHERE id == ?", params![id]).await
\*     .map_err(|_err| LibsqlError::NullValue)?;
\* while let Some(row) = results.next().await? { posts.push(Post {..}) }
\* match posts.get(0) { Some(post) => Ok(post.clone()),
\*                      None => Err(Error::msg("ID NOT FOUND")) }
book_by_id_query(t) ==
    /\ pc[t] = "bi_query"
    /\ LET rows == SelectById(db, arg[t].id)
           posts == Posts(rows)
       IN \/ /\ posts # <<>>
             /\ Return(t, OkPosts(<<posts[1]>>), <<"query">>)
          \/ /\ posts = <<>>
             /\ Return(t, Err("ID NOT FOUND"), <<"query">>)
          \/ \E f \in QueryFaults :
                Finish(t, Err(book_by_id_map_err(f)), <<"query">>, <<"query", f>>)
          \/ \E f \in QueryFaults : Finish(t, Err(f), <<"query">>, <<"next", f>>)
          \/ /\ rows # <<>>
             /\ Finish(t, Err(RowFault), <<"query">>, <<"get", RowFault>>)
    /\ UNCHANGED <<db, cache, readers, writer, written>>

(* ------------------- the mutation sketches of db.rs --------------------- *)

\* Inserts sent but not yet executed: they will each take a primary key.
PendingInserts == Cardinality({u \in Tasks : pc[u] = "add_query"})

add_book_call(t, title, author) ==
    /\ NextRowId(db) + PendingInserts <= MaxId
    /\ Call(t, "add_book", [NoArg EXCEPT !.title = title, !.author_id = author],
            "add_query")

\* let results = connection.query("INSERT into posts values ..", ..).await;
\* the Result is never looked at.
add_book_query(t) ==
    /\ pc[t] = "add_query"
    /\ \/ /\ db' = Insert(db, arg[t].title, arg[t].author_id)
          /\ results' = [results EXCEPT ![t] = <<Row(NextRowId(db), arg[t].title, Foo,
                                                     arg[t].author_id, Stamp)>>]
          /\ Step(t, "inv_lock", <<"ack">>)
       \/ /\ Step(t, "inv_lock", <<"nack">>)
          /\ UNCHANGED <<db, results>>
    /\ UNCHANGED <<cache, readers, writer, books, written>>

\* An update that invalidates before it sends its statement.
update_book_call_invalidate_first(t, id, title, author) ==
    Call(t, "update_book", [id |-> id, title |-> title, author_id |-> author],
         "inv_lock")

update_book_call(t, id, title, author) ==
    Call(t, "update_book", [id |-> id, title |-> title, author_id |-> author],
         "upd_execute")

\* sqlx::query("UPDATE books SET title=$1, author=$2 WHERE id=$3")
\*     .execute(connection_pool).await?
update_book_execute(t) ==
    /\ pc[t] = "upd_execute"
    /\ \/ /\ db' = UpdateRow(db, arg[t].id, arg[t].title, arg[t].author_id)
          /\ Step(t, "inv_lock", <<"ack">>)
          /\ UNCHANGED <<results, books>>
       \/ /\ Return(t, Err("Query"), <<"nack">>)
          /\ UNCHANGED db
    /\ UNCHANGED <<cache, readers, writer, written>>

delete_book_call(t, id) ==
    Call(t, "delete_book", [NoArg EXCEPT !.id = id], "del_execute")

\* A delete that returns without invalidating.
delete_book_execute_no_invalidate(t) ==
    /\ pc[t] = "del_execute"
    /\ db' = DeleteRow(db, arg[t].id)
    /\ Return(t, OkUnit, <<"ack">>)
    /\ UNCHANGED <<cache, readers, writer, written>>

\* sqlx::query("DELETE FROM books WHERE id=$1").execute(connection_pool).await?
delete_book_execute(t) ==
    /\ pc[t] = "del_execute"
    /\ \/ /\ db' = DeleteRow(db, arg[t].id)
          /\ Step(t, "inv_lock", <<"ack">>)
          /\ UNCHANGED <<results, books>>
       \/ /\ Return(t, Err("Query"), <<"nack">>)
          /\ UNCHANGED db
    /\ UNCHANGED <<cache, readers, writer, written>>

\* CACHE.invalidate().await: PostCache::invalidate takes the write lock
PostCache_invalidate_lock(t) ==
    /\ pc[t] = "inv_lock"
    /\ CanWrite(readers, writer)
    /\ writer' = t
    /\ Step(t, "inv_write", <<>>)
    /\ UNCHANGED <<db, cache, readers, results, books, written>>

\* What the mutation returns once CACHE.invalidate() is done: add_book Ok(id),
\* update_book and delete_book Ok(()). The add_book sketch binds id only in
\* the statement's RETURNING clause, so a failed statement leaves it open.
MutationResults(t) ==
    IF op[t] = "add_book"
    THEN IF results[t] # <<>> THEN {OkId(results[t][1][1])} ELSE {OkId(id) : id \in Ids}
    ELSE {OkUnit}

\* An invalidate whose write guard is never dropped.
PostCache_invalidate_write_keep_guard(t) ==
    /\ pc[t] = "inv_write"
    /\ cache' = PostCache_invalidate(cache)
    /\ written' = [kind |-> "invalidate", books |-> <<>>]
    /\ \E r \in MutationResults(t) : Return(t, r, <<"invalidate">>)
    /\ UNCHANGED <<db, readers, writer>>

\* PostCache::invalidate stores None and drops the guard; then Ok(..)
PostCache_invalidate_write(t) ==
    /\ pc[t] = "inv_write"
    /\ cache' = PostCache_invalidate(cache)
    /\ written' = [kind |-> "invalidate", books |-> <<>>]
    /\ writer' = 0
    /\ \E r \in MutationResults(t) : Return(t, r, <<"invalidate">>)
    /\ UNCHANGED <<db, readers>>

(* --------------------------- specification ------------------------------ *)

\* The specifications below do not observe the races between queries.
Untracked == UNCHANGED <<quiet, queried, waiters>>

Next ==
    \E t \in Tasks :
        \/ all_books_call(t) /\ Untracked
        \/ PostCache_all_books_lock(t) /\ Untracked
        \/ PostCache_all_books_clone(t) /\ Untracked
        \/ all_books_query(t) /\ Untracked
        \/ PostCache_refresh_lock(t) /\ Untracked
        \/ PostCache_refresh_write(t) /\ Untracked
        \/ \E id \in Ids : book_by_id_call(t, id) /\ Untracked
        \/ book_by_id_query(t) /\ Untracked
        \/ \E p \in PostInputs : add_book_call(t, p[1], p[2]) /\ Untracked
        \/ add_book_query(t) /\ Untracked
        \/ \E id \in Ids, p \in PostInputs :
              update_book_call(t, id, p[1], p[2]) /\ Untracked
        \/ update_book_execute(t) /\ Untracked
        \/ \E id \in Ids : delete_book_call(t, id) /\ Untracked
        \/ delete_book_execute(t) /\ Untracked
        \/ PostCache_invalidate_lock(t) /\ Untracked
        \/ PostCache_invalidate_write(t) /\ Untracked

Spec == Init /\ [][Next]_vars

(* ------------------- observing the races between queries ---------------- *)

AllIdle == \A t \in Tasks : Idle(t)

\* The tasks that start a call in this step.
Started == {t \in Tasks : pc[t] = "idle" /\ pc'[t] # "idle"}

\* The task whose all_books query is answered in this step, if any.
Answered == {t \in Tasks : pc[t] = "la_query" /\ pc'[t] = "refresh_lock"}

\* quiet: every call started since all tasks were last idle is an all_books
\* call, so nothing has changed the table since. queried: the answer to the
\* latest all_books query, kept while some call is between its query and its
\* refresh.
Tracked ==
    /\ quiet' = IF \A t \in Tasks : pc'[t] = "idle" THEN FALSE
                ELSE IF Started = {} THEN quiet
                ELSE /\ \A t \in Started : op'[t] = "all_books"
                     /\ quiet \/ AllIdle
    /\ queried' = IF Answered # {}
                  THEN Some(books'[CHOOSE t \in Answered : TRUE])
                  ELSE IF \E u \in Tasks : pc'[u] \in {"refresh_lock", "refresh_write"}
                       THEN queried
                       ELSE None
    /\ UNCHANGED waiters

\* all_books racing with itself and with the mutation sketches.
NextRace ==
    \E t \in Tasks :
        \/ all_books_call(t) /\ Tracked
        \/ PostCache_all_books_lock(t) /\ Tracked
        \/ PostCache_all_books_clone(t) /\ Tracked
        \/ all_books_query(t) /\ Tracked
        \/ PostCache_refresh_lock(t) /\ Tracked
        \/ PostCache_refresh_write(t) /\ Tracked
        \/ \E p \in PostInputs : add_book_call(t, p[1], p[2]) /\ Tracked
        \/ add_book_query(t) /\ Tracked
        \/ \E id \in Ids, p \in PostInputs :
              update_book_call(t, id, p[1], p[2]) /\ Tracked
        \/ update_book_execute(t) /\ Tracked
        \/ \E id \in Ids : delete_book_call(t, id) /\ Tracked
        \/ delete_book_execute(t) /\ Tracked
        \/ PostCache_invalidate_lock(t) /\ Tracked
        \/ PostCache_invalidate_write(t) /\ Tracked

SpecRace == Init /\ [][NextRace]_vars

(* ------------------------- abandoned calls ------------------------------ *)

\* The caller dropped the call's future.
Cancelled == [tag |-> "Cancelled", posts |-> <<>>, id |-> 0, msg |-> ""]

\* The positions at which a call is suspended in an await: for a lock of the
\* cache, for the database's answer, for the next row.
LockAwait == {"get_lock", "refresh_lock", "inv_lock"}
QueryAwait == {"la_query", "la_next", "bi_query"}
StatementAwait == {"add_query", "upd_execute", "del_execute"}

\* What the table may be once a call awaiting its statement is dropped: the
\* database has executed the statement or it has not.
Abandoned(t) ==
    IF pc[t] = "add_query" THEN {db, Insert(db, arg[t].title, arg[t].author_id)}
    ELSE IF pc[t] = "upd_execute"
         THEN {db, UpdateRow(db, arg[t].id, arg[t].title, arg[t].author_id)}
    ELSE IF pc[t] = "del_execute" THEN {db, DeleteRow(db, arg[t].id)}
    ELSE {db}

\* A future dropped at whichever await it is suspended in: its locals go,
\* nothing else of the program runs.
Cancel(t) ==
    /\ pc[t] \in LockAwait \cup QueryAwait \cup StatementAwait
    /\ db' \in Abandoned(t)
    /\ Finish(t, Cancelled, <<"cancel">>, NoFault)
    /\ UNCHANGED <<cache, readers, writer, written>>

\* all_books row by row.
\* let mut results = connection.query("SELECT * FROM users", ()).await.unwrap();
\* results holds the rows of the answer; the loop has read Len(books) of them.
all_books_send(t) ==
    /\ pc[t] = "la_query"
    /\ \/ /\ results' = [results EXCEPT ![t] = SelectAll(db)]
          /\ Step(t, "la_next", <<"query">>)
          /\ UNCHANGED books
       \/ /\ Return(t, Panic, <<"query">>)
    /\ UNCHANGED <<db, cache, readers, writer, written>>

\* A loop that stops after the row it has.
all_books_next_stop_early(t) ==
    /\ pc[t] = "la_next"
    /\ Step(t, "refresh_lock", <<>>)
    /\ UNCHANGED <<db, cache, readers, writer, results, books, written>>

\* while let Some(row) = results.next().await.unwrap() { books.push(Post {..}) }
all_books_next(t) ==
    /\ pc[t] = "la_next"
    /\ \/ /\ Len(books[t]) < Len(results[t])
          /\ books' = [books EXCEPT ![t] = Append(@, Post(results[t][Len(@) + 1]))]
          /\ Step(t, "la_next", <<"row">>)
          /\ UNCHANGED results
       \/ /\ Len(books[t]) = Len(results[t])
          /\ Step(t, "refresh_lock", <<>>)
          /\ UNCHANGED <<results, books>>
       \/ /\ Len(books[t]) < Len(results[t])
          /\ Return(t, Panic, <<>>)
    /\ UNCHANGED <<db, cache, readers, writer, written>>

\* What callers submit here: B/x to add, and A/y for the post of id 1.
CancelAdds == {<<Titles[2], Authors[1]>>}
CancelUpdates == {<<1, Titles[1], Authors[2]>>}

\* Every function of db.rs, all_books row by row, and callers that give up.
NextCancel ==
    \E t \in Tasks :
        \/ all_books_call(t) /\ Untracked
        \/ PostCache_all_books_lock(t) /\ Untracked
        \/ PostCache_all_books_clone(t) /\ Untracked
        \/ all_books_send(t) /\ Untracked
        \/ all_books_next(t) /\ Untracked
        \/ PostCache_refresh_lock(t) /\ Untracked
        \/ PostCache_refresh_write(t) /\ Untracked
        \/ \E id \in Ids : book_by_id_call(t, id) /\ Untracked
        \/ book_by_id_query(t) /\ Untracked
        \/ \E p \in CancelAdds : add_book_call(t, p[1], p[2]) /\ Untracked
        \/ add_book_query(t) /\ Untracked
        \/ \E u \in CancelUpdates :
              update_book_call(t, u[1], u[2], u[3]) /\ Untracked
        \/ update_book_execute(t) /\ Untracked
        \/ \E id \in Ids : delete_book_call(t, id) /\ Untracked
        \/ delete_book_execute(t) /\ Untracked
        \/ PostCache_invalidate_lock(t) /\ Untracked
        \/ PostCache_invalidate_write(t) /\ Untracked
        \/ Cancel(t) /\ Untracked

SpecCancel == Init /\ [][NextCancel]_vars

(* ----------------------- the code as it is live -------------------------- *)

\* The database is remote (init_db): other clients insert and delete rows
\* while this process runs.
database_changes ==
    /\ \/ \E p \in PostInputs :
             /\ NextRowId(db) <= MaxId
             /\ db' = Insert(db, p[1], p[2])
       \/ \E id \in Ids :
             /\ RowsWithId(db, id) # {}
             /\ db' = DeleteRow(db, id)
    /\ last' = NoLast
    /\ UNCHANGED <<cache, readers, writer, pc, op, arg, results, books, events,
                   alone, prev, written>>

\* all_books and book_by_id, the two functions db.rs leaves uncommented.
NextLive ==
    \/ \E t \in Tasks :
          \/ all_books_call(t) /\ Untracked
          \/ PostCache_all_books_lock(t) /\ Untracked
          \/ PostCache_all_books_clone(t) /\ Untracked
          \/ all_books_query(t) /\ Untracked
          \/ PostCache_refresh_lock(t) /\ Untracked
          \/ PostCache_refresh_write(t) /\ Untracked
          \/ \E id \in Ids : book_by_id_call(t, id) /\ Untracked
          \/ book_by_id_query(t) /\ Untracked
    \/ database_changes /\ Untracked

SpecLive == Init /\ [][NextLive]_vars

(* ---------------------------- fair scheduling --------------------------- *)

\* What callers submit here: B/x to add, A/y for the post of id 1, and id 1
\* to look up or delete.
FairIds == {1}

\* tokio's RwLock is fair: waiters queue first in, first out, and a guard is
\* granted to the head of the queue only, so a get that arrives behind a
\* waiting refresh or invalidate waits behind it.
Arrived == {t \in Tasks : pc[t] \notin LockAwait /\ pc'[t] \in LockAwait}
Granted == {t \in Tasks : pc[t] \in LockAwait /\ pc'[t] \notin LockAwait}

Fifo ==
    /\ \A t \in Granted : waiters # <<>> /\ Head(waiters) = t
    /\ waiters' =
          (IF Granted = {} THEN waiters ELSE Tail(waiters))
              \o (IF Arrived = {} THEN <<>> ELSE <<CHOOSE t \in Arrived : TRUE>>)

Queued == Fifo /\ UNCHANGED <<quiet, queried>>

NextFair ==
    \E t \in Tasks :
        \/ all_books_call(t) /\ Queued
        \/ PostCache_all_books_lock(t) /\ Queued
        \/ PostCache_all_books_clone(t) /\ Queued
        \/ all_books_query(t) /\ Queued
        \/ PostCache_refresh_lock(t) /\ Queued
        \/ PostCache_refresh_write(t) /\ Queued
        \/ \E id \in FairIds : book_by_id_call(t, id) /\ Queued
        \/ book_by_id_query(t) /\ Queued
        \/ \E p \in CancelAdds : add_book_call(t, p[1], p[2]) /\ Queued
        \/ add_book_query(t) /\ Queued
        \/ \E u \in CancelUpdates :
              update_book_call(t, u[1], u[2], u[3]) /\ Queued
        \/ update_book_execute(t) /\ Queued
        \/ \E id \in FairIds : delete_book_call(t, id) /\ Queued
        \/ delete_book_execute(t) /\ Queued
        \/ PostCache_invalidate_lock(t) /\ Queued
        \/ PostCache_invalidate_write(t) /\ Queued

\* The database answers every query and statement, and the runtime polls
\* every task that can go on: a step that stays possible is taken.
Answers(t) ==
    /\ \/ all_books_query(t)
       \/ book_by_id_query(t)
       \/ add_book_query(t)
       \/ update_book_execute(t)
       \/ delete_book_execute(t)
    /\ Queued

Polled(t) ==
    /\ \/ PostCache_all_books_clone(t)
       \/ PostCache_refresh_write(t)
       \/ PostCache_invalidate_write(t)
    /\ Queued

\* The waiter at the head of the queue takes the lock once it is free for it.
ReadGranted(t) == PostCache_all_books_lock(t) /\ Queued
WriteGranted(t) ==
    /\ \/ PostCache_refresh_lock(t)
       \/ PostCache_invalidate_lock(t)
    /\ Queued

Fairness ==
    \A t \in Tasks :
        /\ WF_vars(Answers(t))
        /\ WF_vars(Polled(t))
        /\ WF_vars(ReadGranted(t))
        /\ WF_vars(WriteGranted(t))

SpecFair == Init /\ [][NextFair]_vars /\ Fairness

(* ------------------------------ the claims ------------------------------ *)

TitleRank(title) == IndexOf(Titles, title)
AuthorRank(author) == IndexOf(Authors, author)

\* ORDER BY title, author
Before(t1, a1, t2, a2) ==
    \/ TitleRank(t1) < TitleRank(t2)
    \/ TitleRank(t1) = TitleRank(t2) /\ AuthorRank(a1) <= AuthorRank(a2)

\* "SELECT * FROM books ORDER BY title,author": every result the canonical
\* query may give (rows equal in title and author come in either order).
CanonicalQuery(table) ==
    {r \in Orderings(table) :
        \A i, j \in DOMAIN r : i < j => Before(r[i][2], r[i][4], r[j][2], r[j][4])}

SortedPosts(posts) ==
    \A i, j \in DOMAIN posts :
        i < j => Before(posts[i].title, posts[i].author_id,
                        posts[j].title, posts[j].author_id)

\* The call that just returned was a mutation whose statement the database
\* executed and that reported success.
MutationSucceeded ==
    /\ last.op \in Mutations
    /\ last.result.tag = "Ok"
    /\ last.events[1] = "ack"

\* The call that just returned was an all_books call that missed the cache
\* and got through the database query.
MissReturned ==
    /\ last.op = "all_books"
    /\ last.result.tag = "Ok"
    /\ last.events = <<"get", "query", "refresh">>

\* The call that just returned was an all_books call served from the cache.
HitReturned ==
    /\ last.op = "all_books"
    /\ last.events = <<"get">>

\* Task t takes the step that ends PostCache::all_books (the clone).
Gets(t) == pc[t] = "get_clone" /\ pc'[t] # "get_clone"

\* C1: read-through equivalence. An all_books call that finds the cache empty
\* and runs with no other call overlapping it returns a result of the
\* canonical query (ORDER BY title, author) on the table, and leaves the
\* cache holding that same sequence.
C1_ReadThrough ==
    (MissReturned /\ last.alone) =>
        /\ last.result.posts \in {Posts(r) : r \in CanonicalQuery(db)}
        /\ cache = Some(last.result.posts)

C4_Ordering ==
    (last.op = "all_books" /\ last.result.tag = "Ok") => SortedPosts(last.result.posts)

\* C5: a cache hit. When PostCache::all_books finds the slot populated,
\* all_books returns the stored sequence at once: no database query, and the
\* cache, the lock's writer and the table are left as they were.
C5_CacheHit ==
    [][\A t \in Tasks :
          (Gets(t) /\ IsSome(cache)) =>
              /\ last'.op = "all_books"
              /\ last'.result = OkPosts(Unwrap(cache))
              /\ last'.events = <<"get">>
              /\ cache' = cache /\ db' = db /\ writer' = writer]_vars

\* A hit returns a snapshot of two posts.
C5_Witness == HitReturned /\ Len(last.result.posts) = 2 /\ IsSome(cache)

C7_BypassesCache ==
    /\ [](last.op = "book_by_id" => last.events = <<"query">>)
    /\ [][\A t \in Tasks :
             (pc'[t] # pc[t] /\ (op[t] = "book_by_id" \/ op'[t] = "book_by_id")) =>
                 /\ cache' = cache
                 /\ readers' = readers
                 /\ writer' = writer
                 /\ written' = written]_vars

\* A lookup succeeds while the cache is populated.
C7_Witness == last.op = "book_by_id" /\ last.result.tag = "Ok" /\ IsSome(cache)

\* C8: failure on a miss. An all_books call that misses the cache and whose
\* query or row conversion fails returns an error value, does not refresh,
\* and leaves the cache empty.
C8_FailureOnMiss ==
    (last.op = "all_books" /\ last.events = <<"get", "query">>) =>
        /\ last.result.tag = "Err"
        /\ last.alone => cache = None

\* C9: cache round trip. After refresh(s), whatever the slot held before, a
\* get with no refresh or invalidate in between returns exactly s.
C9_CacheRoundTrip ==
    [][\A t \in Tasks :
          (Gets(t) /\ written.kind = "refresh") =>
              /\ last'.op = "all_books"
              /\ last'.events = <<"get">>
              /\ last'.result = OkPosts(written.books)]_vars

\* A get returns the two posts of the last refresh, in their order.
C9_Witness ==
    /\ HitReturned
    /\ written.kind = "refresh"
    /\ Len(written.books) = 2
    /\ last.result.posts = written.books

\* C10: invalidation. After invalidate(), whatever the slot held before, a get
\* with no refresh in between returns None: all_books goes on to the database.
C10_Invalidation ==
    [][\A t \in Tasks :
          (Gets(t) /\ written.kind = "invalidate") =>
              /\ pc'[t] = "la_query"
              /\ events'[t] = <<"get">>]_vars

\* A get has returned None after an invalidate, with rows in the table.
C10_Witness ==
    \E t \in Tasks :
        /\ pc[t] = "la_query"
        /\ written.kind = "invalidate"
        /\ db # <<>>

\* C11: atomic snapshot visibility. While a task is inside PostCache::refresh
\* or PostCache::invalidate (it holds the write guard) no other task is inside
\* refresh, invalidate or PostCache::all_books, and the guards say so; and
\* what a get can see is None or the whole argument of the latest refresh.
C11_AtomicSnapshot ==
    /\ \A t \in Tasks :
          pc[t] \in {"refresh_write", "inv_write"} =>
              /\ writer = t
              /\ readers = {}
              /\ \A u \in Tasks \ {t} :
                    pc[u] \notin {"refresh_write", "inv_write", "get_clone"}
    /\ \A t \in Tasks : pc[t] = "get_clone" => (t \in readers /\ writer = 0)
    /\ \/ cache = None
       \/ /\ written.kind = "refresh"
          /\ cache = Some(written.books)

\* Two tasks read a populated slot of two posts at once while nobody writes.
C11_Witness ==
    /\ \A t \in Tasks : pc[t] = "get_clone"
    /\ IsSome(cache) /\ Len(Unwrap(cache)) = 2

\* C12: convergence under concurrent misses. While only all_books calls run
\* (nothing changes the table), every call that misses queries the database
\* and refreshes the cache with its own result; and once several overlapping
\* calls have all returned, the last of them after a miss, the cache holds a
\* result of the canonical query on the table.
C12_Convergence ==
    /\ (last.op = "all_books" /\ last.quiet /\ last.result.tag = "Ok"
          /\ last.events # <<"get">>) =>
            /\ MissReturned
            /\ cache = Some(last.result.posts)
    /\ (MissReturned /\ last.quiet /\ ~last.alone /\ AllIdle) =>
            cache \in {Some(Posts(r)) : r \in CanonicalQuery(db)}

\* C13: the last-completing query wins. When all_books calls have missed
\* concurrently and the last of them has returned, the cache holds the answer
\* to the query that was answered last.
C13_LastQueryWins ==
    (MissReturned /\ ~last.alone /\ AllIdle) => cache = last.queried

\* C14: safe abandonment. A call dropped at an await leaves the cache, and
\* what was last written to it, as they are, and holds no guard of the cache
\* afterwards. The cache changes only in the store of a refresh or of an
\* invalidate, and a refresh is entered, and stores, only with the posts of
\* every row of a finished query, never with part of them.
C14_SafeAbandonment ==
    /\ [](\A t \in Tasks :
            pc[t] \in {"refresh_lock", "refresh_write"} => books[t] = Posts(results[t]))
    /\ [](\A t \in Tasks : Idle(t) => (t \notin readers /\ writer # t))
    /\ [](cache = None \/ (written.kind = "refresh" /\ cache = Some(written.books)))
    /\ [][last'.result = Cancelled =>
             /\ cache' = cache /\ written' = written
             /\ readers' = readers /\ writer' = writer]_vars
    /\ [][cache' # cache =>
             \E t \in Tasks :
                 \/ pc[t] = "refresh_write" /\ cache' = Some(Posts(results[t]))
                 \/ pc[t] = "inv_write" /\ cache' = None]_vars

\* An all_books call is dropped after the first of two rows, the cache empty.
C14_Witness ==
    /\ last.op = "all_books" /\ last.result = Cancelled
    /\ last.events = <<"get", "query", "row", "cancel">>
    /\ Len(db) = 2 /\ cache = None

\* C15 as claimed: book_by_id answers "ID NOT FOUND" only when its query
\* went through and matched no row, and when the query, reading a row or
\* converting a column fails it hands the caller that very error.
C15_ErrorsUnchanged ==
    last.op = "book_by_id" =>
        /\ last.result = Err("ID NOT FOUND") =>
              (last.fault = NoFault /\ RowsWithId(db, last.arg.id) = {})
        /\ last.fault # NoFault => last.result = Err(last.fault[2])

\* C15 as amended: "ID NOT FOUND" only when the query went through and
\* matched no row; a failed query reaches the caller as NullValue whatever the
\* driver's error was, and a failure to read a row or convert a column
\* reaches the caller as it is; neither ever as "ID NOT FOUND" or as a post.
C15_NotFoundDistinct ==
    last.op = "book_by_id" =>
        /\ last.result = Err("ID NOT FOUND") =>
              (last.fault = NoFault /\ RowsWithId(db, last.arg.id) = {})
        /\ last.fault # NoFault =>
              last.result = Err(IF last.fault[1] = "query" THEN "NullValue"
                                                            ELSE last.fault[2])

\* The query for a row that exists fails in the driver.
C15_Witness ==
    /\ last.op = "book_by_id"
    /\ last.fault # NoFault /\ last.fault[1] = "query"
    /\ RowsWithId(db, last.arg.id) # {}

\* C16: a write's invalidate wins over a stale refresh. When an all_books
\* call that missed returns with every other call finished, and the table is
\* no longer what its query saw (a mutation was acknowledged after the query
\* and has invalidated and returned since), the cache does not hold that
\* earlier snapshot: it is empty or holds the table as it now is.
C16_InvalidateWins ==
    (MissReturned /\ AllIdle /\ last.result.posts # Posts(SelectAll(db))) =>
        \/ cache = None
        \/ cache = Some(Posts(SelectAll(db)))

\* The call that just returned was an update or delete that ran alone, whose
\* statement the database executed and whose id no row of the table held.
MatchedNoRow ==
    /\ last.alone
    /\ last.events # <<>> /\ last.events[1] = "ack"
    /\ \/ last.op = "update_book" /\ RowsWithId(db, last.arg.id) = {}
       \/ /\ last.op = "delete_book"
          /\ last.prev.op = "delete_book" /\ last.prev.id = last.arg.id

\* C17: failed mutations do not touch the cache. A mutation whose statement
\* the database rejects, and an update or delete whose id matches no row,
\* returns an error without calling invalidate.
C17_FailedMutations ==
    /\ (last.op \in Mutations /\ last.events[1] = "nack") =>
          /\ last.result.tag = "Err"
          /\ last.events = <<"nack">>
    /\ MatchedNoRow =>
          /\ last.result.tag = "Err"
          /\ last.events = <<"ack">>

\* The positions at which a call awaits the database.
DbAwait == {"la_query", "bi_query", "add_query", "upd_execute", "del_execute"}

\* C18 as claimed: while some task awaits the database, no task holds the
\* cache's read or write guard.
C18_NoLockDuringIO ==
    (\E t \in Tasks : pc[t] \in DbAwait) => (readers = {} /\ writer = 0)

\* C18 as amended: a task that awaits the database holds neither guard, and
\* whoever holds a guard is at the clone or the store that ends with dropping
\* it, so a get waits for the lock only through another task's clone or swap.
C18_NoLockAcrossIO ==
    /\ \A t \in Tasks : pc[t] \in DbAwait => (t \notin readers /\ writer # t)
    /\ \A t \in readers : pc[t] = "get_clone"
    /\ writer # 0 => pc[writer] \in {"refresh_write", "inv_write"}

\* One task awaits its all_books query while another holds the write guard
\* and a third party's get would have to wait.
C18_Witness ==
    \E t, u \in Tasks :
        /\ pc[t] = "la_query" /\ pc[u] = "refresh_write"
        /\ writer = u /\ db # <<>>

\* Task t is in a call and its next step can be taken now.
CanProceed(t) ==
    /\ ~Idle(t)
    /\ pc[t] \in LockAwait => (waiters # <<>> /\ Head(waiters) = t)
    /\ pc[t] = "get_lock" => CanRead(readers, writer)
    /\ pc[t] \in {"refresh_lock", "inv_lock"} => CanWrite(readers, writer)

\* C19: no deadlock, eventual completion. Whenever calls are in flight one of
\* them can take a step, and under fair scheduling every all_books and every
\* book_by_id call comes to its end, whatever the other tasks are calling.
C19_EventualReturn ==
    /\ [](AllIdle \/ \E t \in Tasks : CanProceed(t))
    /\ \A t \in Tasks : (op[t] \in {"all_books", "book_by_id"}) ~> Idle(t)

\* An all_books call waits for the read guard while a mutation holds the
\* write guard.
C19_Witness ==
    \E t, u \in Tasks :
        /\ op[t] = "all_books" /\ pc[t] = "get_lock"
        /\ pc[u] = "inv_write" /\ writer = u

\* The positions of a task that has not gone past PostCache::all_books, and
\* those of an all_books call that has missed.
BeforeQuery == {"idle", "get_lock", "get_clone"}
AfterMiss == {"la_query", "refresh_lock", "refresh_write"}

\* C20: with only all_books and book_by_id live, the cache starts empty and
\* is never emptied again: once it is populated it stays populated, and a
\* task that starts all_books from then on never reaches the database query,
\* whatever happens to the table.
C20_NeverEmptied ==
    /\ [](written.kind = "new" => cache = None)
    /\ [][IsSome(cache) => IsSome(cache')]_vars
    /\ [][\A t \in Tasks :
             (IsSome(cache) /\ pc[t] \in BeforeQuery) => pc'[t] \notin AfterMiss]_vars
    /\ [](HitReturned => last.result = OkPosts(Unwrap(cache)))

\* An all_books call is served a snapshot that the table no longer matches.
C20_Witness ==
    /\ HitReturned /\ IsSome(cache)
    /\ Unwrap(cache) # Posts(SelectAll(db))
    /\ Len(db) = 2

====
